---- MODULE Spec2Model ----
(***************************************************************************)
(* A model of the z3 "Strategies" tutorial notebook                        *)
(* (src/z3-solver-examples/z3-strategies.ipynb): goals, tactics, the       *)
(* tactic combinators (tacticals), probes, tactic-backed solvers and model *)
(* conversion, as the notebook's cells use them, and the cells themselves  *)
(* as a sequential state machine that prints to the cell's output.         *)
(*                                                                         *)
(* Formulas are kept symbolic and cover the families the cells build:      *)
(*   or   Or(v == 0, v == 1)            eq   v == c                        *)
(*   gt   sum of the variables vs > c   false  the formula False           *)
(*   lb   v > c      ub   v < c         lin  3*y + 2*x == z                *)
(*   off  y == x + c                    zy   z > y                         *)
(*   poly a (non-linear) polynomial inequality in raw, simplified or       *)
(*        factored form (c = 0, 1, 2)                                      *)
(* A goal is the sequence of its formulas, in the order they were added.   *)
(***************************************************************************)
EXTENDS Integers, Sequences, FiniteSets

VARIABLES cell, pc, g, t, r, out, asserts, mdl

vars == <<cell, pc, g, t, r, out, asserts, mdl>>

(* ------------------------------ bounds --------------------------------- *)

\* largest right-hand side c of the sum constraint  x + y + z > c
MaxThreshold == 2
\* largest explicit iteration bound n tried in Repeat(t, n)
MaxRepeat == 2
\* largest k tried in the probe condition  num-consts > k
MaxProbe == 2

\* largest upper bound u tried in the solver cell's  0 < v < u
MaxUpper == 10
\* largest a and b tried in the conversion cell's  x > a, y == x + b
MaxA == 10
MaxB == 3
\* how far above the least value the general solver's models are taken
MaxSlack == 2

(* ------------------------------ helpers -------------------------------- *)

Range(s) == {s[i] : i \in DOMAIN s}

RECURSIVE SetSumOf(_, _)
SetSumOf(S, f) ==
    IF S = {} THEN 0
    ELSE LET e == CHOOSE e \in S : TRUE IN f[e] + SetSumOf(S \ {e}, f)

RECURSIVE Flatten(_)
Flatten(ss) == IF ss = <<>> THEN <<>> ELSE Head(ss) \o Flatten(Tail(ss))

Min(S) == CHOOSE e \in S : \A o \in S : e <= o

(* ------------------------------ formulas ------------------------------- *)

Vars == {"x", "y", "z"}

\* the order in which the cells add the clauses of x, y and z
VarOrder == <<"x", "y", "z">>

\* Or(v == 0, v == 1)
Clause(v) == [k |-> "or", vs |-> {v}, c |-> 0]

Eq(v, c) == [k |-> "eq", vs |-> {v}, c |-> c]

SumGt(V, c) == [k |-> "gt", vs |-> V, c |-> c]

FalseF == [k |-> "false", vs |-> {}, c |-> 0]

\* v > c  and  v < c
Lb(v, c) == [k |-> "lb", vs |-> {v}, c |-> c]

Ub(v, c) == [k |-> "ub", vs |-> {v}, c |-> c]

\* 3*y + 2*x == z
Lin == [k |-> "lin", vs |-> {"x", "y", "z"}, c |-> 0]

\* y == x + c
Off(c) == [k |-> "off", vs |-> {"x", "y"}, c |-> c]

\* z > y
Zy == [k |-> "zy", vs |-> {"y", "z"}, c |-> 0]

\* a polynomial inequality over the variables V: form 0 as written,
\* 1 simplified (sum-of-monomials), 2 factored
Poly(V, form) == [k |-> "poly", vs |-> V, c |-> form]

\* whether the assignment m (a function on the variables of f) satisfies f
Holds(f, m) ==
    CASE f.k = "or" -> \E v \in f.vs : m[v] \in {0, 1}
      [] f.k = "eq" -> \A v \in f.vs : m[v] = f.c
      [] f.k = "gt" -> SetSumOf(f.vs, m) > f.c
      [] f.k = "false" -> FALSE
      [] f.k = "lb" -> \A v \in f.vs : m[v] > f.c
      [] f.k = "ub" -> \A v \in f.vs : m[v] < f.c
      [] f.k = "lin" -> 3 * m["y"] + 2 * m["x"] = m["z"]
      [] f.k = "off" -> m["y"] = m["x"] + f.c
      [] f.k = "zy" -> m["z"] > m["y"]
      [] OTHER -> TRUE

\* the literals of a clause, in order: Or(v == 0, v == 1)
Literals(f) == LET v == CHOOSE w \in f.vs : TRUE IN <<Eq(v, 0), Eq(v, 1)>>

(* ------------------------------- goals --------------------------------- *)

\* Goal(): the empty goal
Goal == <<>>

\* a goal is decided: trivially satisfiable (no formula left) or containing False
IsDecidedSat(gl) == gl = <<>>

IsDecidedUnsat(gl) == FalseF \in Range(gl)

IsDecided(gl) == IsDecidedSat(gl) \/ IsDecidedUnsat(gl)

(* --------------------------- tactic results ---------------------------- *)

\* the outcome of applying a tactic: failure (an exception), or subgoals
Fail == [ok |-> FALSE, goals |-> <<>>]

Subgoals(gs) == [ok |-> TRUE, goals |-> gs]

(* ------------------------------- probes -------------------------------- *)

\* Probe('num-consts'): the number of (non-Boolean) constants of the goal
NumConsts(gl) == Cardinality(UNION {gl[i].vs : i \in DOMAIN gl})

\* the probe condition  p > k  for p = Probe('num-consts')
ProbeGt(k) == [probe |-> "num-consts", gt |-> k, neg |-> FALSE]

\* Not(p) on a probe condition
Not(p) == [p EXCEPT !.neg = ~@]

ProbeHolds(p, gl) == (NumConsts(gl) > p.gt) # p.neg

(* --------------------------- built-in tactics -------------------------- *)

\* Tactic('skip'): just returns the input goal
Skip(gl) == Subgoals(<<gl>>)

\* Tactic('split-clause'): selects the first clause Or(f_1, ..., f_n) of the
\* goal and splits it into n subgoals, one per f_i, the literal taking the
\* clause's place; fails on a goal without a clause
SplitClause(gl) ==
    LET idx == {i \in DOMAIN gl : gl[i].k = "or"} IN
    IF idx = {} THEN Fail
    ELSE LET i == Min(idx)
             lits == Literals(gl[i])
         IN Subgoals([j \in 1..Len(lits) |-> [gl EXCEPT ![i] = lits[j]]])

\* the variables solve-eqs eliminates from a goal, each with its definition
\* v := base + off (base "" for a constant): v == c gives v := c, and
\* y == x + c gives x := y - c
Eliminated(gl) ==
    {[v |-> CHOOSE w \in gl[i].vs : TRUE, base |-> "", off |-> gl[i].c] :
        i \in {j \in DOMAIN gl : gl[j].k = "eq"}}
    \cup {[v |-> "x", base |-> "y", off |-> 0 - gl[i].c] :
        i \in {j \in DOMAIN gl : gl[j].k = "off"}}

\* a formula after the eliminated variables are substituted: the sequence of
\* formulas left of it (none when it became True)
Substitute(f, elim) ==
    LET consts == {e \in elim : e.base = ""}
        val == [v \in {e.v : e \in consts} |->
                   (CHOOSE e \in consts : e.v = v).off]
        here == {e \in elim : e.v \in f.vs}
    IN CASE f.k \in {"eq", "off"} -> <<>>
         [] f.k = "gt" ->
              LET rest == f.vs \ DOMAIN val
                  c == f.c - SetSumOf(f.vs \cap DOMAIN val, val)
              IN IF rest # {} THEN <<SumGt(rest, c)>>
                 ELSE IF 0 > c THEN <<>> ELSE <<FalseF>>
         [] f.k \in {"or", "lb", "ub"} /\ here # {} ->
              LET e == CHOOSE e \in here : TRUE IN
              IF e.base = ""
              THEN IF Holds(f, val) THEN <<>> ELSE <<FalseF>>
              ELSE <<[f EXCEPT !.vs = {e.base}, !.c = f.c - e.off]>>
         [] OTHER -> <<f>>

\* Tactic('solve-eqs'): eliminates variables by solving equations; a goal
\* in which a formula became False is the goal [False]
SolveEqs(gl) ==
    LET elim == Eliminated(gl)
        conflict == \E a \in elim, b \in elim : a.v = b.v /\ a # b
        left == Flatten([i \in DOMAIN gl |-> Substitute(gl[i], elim)])
    IN IF IsDecidedUnsat(gl) THEN Subgoals(<<gl>>)
       ELSE IF conflict \/ FalseF \in Range(left) THEN Subgoals(<<<<FalseF>>>>)
       ELSE Subgoals(<<left>>)

\* Tactic('simplify') and Tactic('factor') on the polynomial of the If cell:
\* the formula as written becomes its simplified / factored form. The
\* linear formulas are kept as they are: their normal form (Not(y <= 13)
\* for y > 13) is the same formula.
Simplify(gl) ==
    Subgoals(<<[i \in DOMAIN gl |->
        IF gl[i].k = "poly" /\ gl[i].c = 0 THEN Poly(gl[i].vs, 1) ELSE gl[i]]>>)

Factor(gl) ==
    Subgoals(<<[i \in DOMAIN gl |->
        IF gl[i].k = "poly" /\ gl[i].c = 0 THEN Poly(gl[i].vs, 2) ELSE gl[i]]>>)

\* the variables of a goal, and those with a lower and an upper bound
GoalVars(gl) == UNION {gl[i].vs : i \in DOMAIN gl}

Bounded(gl) ==
    {v \in GoalVars(gl) :
        /\ \E i \in DOMAIN gl : gl[i].k = "lb" /\ gl[i].vs = {v}
        /\ \E i \in DOMAIN gl : gl[i].k = "ub" /\ gl[i].vs = {v}}

\* the assignments of the goal's variables, each within the goal's extreme
\* bounds, that satisfy every formula of the goal
Solutions(gl) ==
    LET los == {gl[i].c : i \in {j \in DOMAIN gl : gl[j].k = "lb"}}
        his == {gl[i].c : i \in {j \in DOMAIN gl : gl[j].k = "ub"}}
        box == IF los = {} \/ his = {} THEN {}
               ELSE (Min(los) + 1)..(0 - Min({0 - c : c \in his}) - 1)
    IN {m \in [GoalVars(gl) -> box] : \A i \in DOMAIN gl : Holds(gl[i], m)}

\* Tactic('lia2pb'): integer constraints to 0-1 constraints; fails unless
\* every variable has a lower and an upper bound. The encoding keeps the
\* solutions, and the goal is kept over its integer variables here.
Lia2pb(gl) == IF Bounded(gl) = GoalVars(gl) THEN Subgoals(<<gl>>) ELSE Fail

\* Tactic('sat') at the end of the bit-blasting pipeline: decides the (by
\* then propositional) goal: the empty goal when it has a solution, the
\* goal [False] when it has none; fails on a goal that is not propositional
Sat(gl) ==
    IF Bounded(gl) # GoalVars(gl) THEN Fail
    ELSE IF Solutions(gl) # {} THEN Subgoals(<<Goal>>)
    ELSE Subgoals(<<<<FalseF>>>>)

(* ------------------------------ tacticals ------------------------------ *)

Tactic(name) == [op |-> name]

OrElse(a, b) == [op |-> "OrElse", a |-> a, b |-> b]

Then(a, b) == [op |-> "Then", a |-> a, b |-> b]

\* Repeat(t) has no bound of its own: z3py's default max is 4294967295,
\* kept here within TLC's integers; no run iterates that far
RepeatDefaultMax == 2147483647

RepeatN(a, n) == [op |-> "Repeat", a |-> a, n |-> n]

Repeat(a) == RepeatN(a, RepeatDefaultMax)

FailIf(p) == [op |-> "FailIf", p |-> p]

If(p, a, b) == [op |-> "If", p |-> p, a |-> a, b |-> b]

When(p, a) == [op |-> "When", p |-> p, a |-> a]

\* the outcome of a tactical that applied a tactic to several subgoals, in
\* order (rs[i] the outcome on the i-th): a failure fails the whole; a
\* subgoal decided satisfiable is the result, alone, and the subgoals after
\* it are not looked at; subgoals decided unsatisfiable are discharged; the
\* others' subgoals are collected; when all were discharged the result is
\* the goal [False]
\* (mutant) every subgoal's outcome collected, none ending the application
RECURSIVE CollectAll(_, _, _)
CollectAll(rs, i, acc) ==
    IF i > Len(rs)
    THEN IF acc = <<>> THEN Subgoals(<<<<FalseF>>>>) ELSE Subgoals(acc)
    ELSE IF ~rs[i].ok THEN Fail
    ELSE IF Len(rs[i].goals) = 1 /\ IsDecidedUnsat(rs[i].goals[1])
         THEN CollectAll(rs, i + 1, acc)
    ELSE CollectAll(rs, i + 1, acc \o rs[i].goals)

RECURSIVE Collect(_, _, _)
Collect(rs, i, acc) ==
    IF i > Len(rs)
    THEN IF acc = <<>> THEN Subgoals(<<<<FalseF>>>>) ELSE Subgoals(acc)
    ELSE IF ~rs[i].ok THEN Fail
    ELSE IF Len(rs[i].goals) = 1 /\ IsDecidedSat(rs[i].goals[1])
         THEN Subgoals(<<rs[i].goals[1]>>)
    ELSE IF Len(rs[i].goals) = 1 /\ IsDecidedUnsat(rs[i].goals[1])
         THEN Collect(rs, i + 1, acc)
    ELSE Collect(rs, i + 1, acc \o rs[i].goals)

RECURSIVE Apply(_, _), RepeatAt(_, _, _, _), RepeatAtOneLess(_, _, _, _)

\* (mutant) If with its branches exchanged
ApplyIfSwapped(p, a, b, gl) ==
    IF ProbeHolds(p, gl) THEN Apply(b, gl) ELSE Apply(a, gl)

\* If(p, t1, t2): t1 when the probe condition holds on the goal, else t2
ApplyIf(p, a, b, gl) == IF ProbeHolds(p, gl) THEN Apply(a, gl) ELSE Apply(b, gl)

\* (mutant) FailIf failing when the goal does not satisfy the condition
ApplyFailIfUnsatisfied(p, gl) ==
    IF ProbeHolds(p, gl) THEN Subgoals(<<gl>>) ELSE Fail

\* FailIf(cond): fails when the condition holds on the goal, otherwise
\* returns the goal unmodified
ApplyFailIf(p, gl) == IF ProbeHolds(p, gl) THEN Fail ELSE Subgoals(<<gl>>)

\* (mutant) OrElse without the fallback
ApplyOrElseNoFallback(a, b, gl) == Apply(a, gl)

\* OrElse(t, s): t on the goal; if it fails, s on the (restored) input goal
ApplyOrElse(a, b, gl) ==
    LET r1 == Apply(a, gl) IN IF r1.ok THEN r1 ELSE Apply(b, gl)

\* Then(t, s): t on the goal, s on every subgoal t produced
ApplyThen(a, b, gl) ==
    LET r1 == Apply(a, gl) IN
    IF ~r1.ok THEN Fail
    ELSE IF Len(r1.goals) = 1
         THEN IF IsDecided(r1.goals[1]) THEN r1 ELSE Apply(b, r1.goals[1])
    ELSE Collect([i \in DOMAIN r1.goals |-> Apply(b, r1.goals[i])], 1, <<>>)

\* (mutant) Repeat stopping one iteration early
RepeatAtOneLess(a, n, depth, gl) ==
    IF depth >= n THEN Subgoals(<<gl>>)
    ELSE LET r1 == Apply(a, gl) IN
         IF ~r1.ok THEN Fail
         ELSE IF Len(r1.goals) = 1
              THEN IF r1.goals[1] = gl \/ IsDecided(r1.goals[1]) THEN r1
                   ELSE RepeatAtOneLess(a, n, depth + 1, r1.goals[1])
         ELSE Collect([i \in DOMAIN r1.goals |->
                          RepeatAtOneLess(a, n, depth + 1, r1.goals[i])], 1, <<>>)

\* Repeat(t, n) at a depth: the goal itself beyond depth n; otherwise t,
\* and, unless t left the goal as it was, the same one level deeper on
\* every subgoal
RepeatAt(a, n, depth, gl) ==
    IF depth > n THEN Subgoals(<<gl>>)
    ELSE LET r1 == Apply(a, gl) IN
         IF ~r1.ok THEN Fail
         ELSE IF Len(r1.goals) = 1
              THEN IF r1.goals[1] = gl \/ IsDecided(r1.goals[1]) THEN r1
                   ELSE RepeatAt(a, n, depth + 1, r1.goals[1])
         ELSE Collect([i \in DOMAIN r1.goals |->
                          RepeatAt(a, n, depth + 1, r1.goals[i])], 1, <<>>)

\* t(g): the tactic t applied to the goal g. normalize-bounds, pb2bv and
\* bit-blast re-encode the goal over other variables and undo that in their
\* model converters; goals are kept over their original variables here, so
\* the three leave the goal as it is.
Apply(tac, gl) ==
    CASE tac.op = "skip" -> Skip(gl)
      [] tac.op = "fail" -> Fail
      [] tac.op = "split-clause" -> SplitClause(gl)
      [] tac.op = "solve-eqs" -> SolveEqs(gl)
      [] tac.op = "simplify" -> Simplify(gl)
      [] tac.op = "factor" -> Factor(gl)
      [] tac.op = "lia2pb" -> Lia2pb(gl)
      [] tac.op = "sat" -> Sat(gl)
      [] tac.op \in {"normalize-bounds", "pb2bv", "bit-blast"} -> Skip(gl)
      [] tac.op = "FailIf" -> ApplyFailIf(tac.p, gl)
      [] tac.op = "OrElse" -> ApplyOrElse(tac.a, tac.b, gl)
      [] tac.op = "Then" -> ApplyThen(tac.a, tac.b, gl)
      [] tac.op = "Repeat" -> RepeatAt(tac.a, tac.n, 0, gl)
      [] tac.op = "If" -> ApplyIf(tac.p, tac.a, tac.b, gl)
      [] tac.op = "When" -> ApplyIf(tac.p, tac.a, Tactic("skip"), gl)

\* Then(t1, ..., tn), n >= 2: nested from the left
RECURSIVE ThenAll(_)
ThenAll(ts) ==
    IF Len(ts) = 2 THEN Then(ts[1], ts[2])
    ELSE Then(ThenAll(SubSeq(ts, 1, Len(ts) - 1)), ts[Len(ts)])

\* the solver for bounded integer arithmetic by SAT
IntBySat ==
    ThenAll(<<Tactic("simplify"), Tactic("normalize-bounds"), Tactic("lia2pb"),
              Tactic("pb2bv"), Tactic("bit-blast"), Tactic("sat")>>)

\* the tactic of the model-conversion cell
SimplifySolveEqs ==
    ThenAll(<<Tactic("simplify"), Tactic("normalize-bounds"), Tactic("solve-eqs")>>)

\* t.solver().check() on the assertions: sat when the tactic produces the
\* empty goal, unsat when it produces a single goal containing False,
\* unknown otherwise (a failure of the tactic included)
Check(tac, as) ==
    LET res == Apply(tac, as) IN
    IF ~res.ok THEN "unknown"
    ELSE IF Len(res.goals) = 1 /\ IsDecidedSat(res.goals[1]) THEN "sat"
    ELSE IF Len(res.goals) = 1 /\ IsDecidedUnsat(res.goals[1]) THEN "unsat"
    ELSE "unknown"

\* the eliminations a tactic made on a goal: its model converter
RECURSIVE Converter(_, _)
Converter(tac, gl) ==
    CASE tac.op = "solve-eqs" -> Eliminated(gl)
      [] tac.op = "Then" ->
           LET r1 == Apply(tac.a, gl) IN
           Converter(tac.a, gl)
           \cup (IF r1.ok /\ Len(r1.goals) = 1
                 THEN Converter(tac.b, r1.goals[1]) ELSE {})
      [] OTHER -> {}

\* (mutant) the eliminated variable given its base's value, the offset lost
ConvertModelNoOffset(mc, m) ==
    [v \in DOMAIN m \cup {e.v : e \in mc} |->
        IF v \in DOMAIN m THEN m[v]
        ELSE LET e == CHOOSE e \in mc : e.v = v IN
             IF e.base = "" THEN e.off ELSE m[e.base]]

\* convert_model(m): the model m of the subgoal extended by the value of
\* every eliminated variable, computed from its definition
ConvertModel(mc, m) ==
    [v \in DOMAIN m \cup {e.v : e \in mc} |->
        IF v \in DOMAIN m THEN m[v]
        ELSE LET e == CHOOSE e \in mc : e.v = v IN
             IF e.base = "" THEN e.off ELSE m[e.base] + e.off]

\* what If(p, t1, t2) is said to be a shorthand for
Shorthand(p, a, b) == OrElse(Then(FailIf(Not(p)), a), b)

\* the tactics of the Tactics cell
split_all == Repeat(OrElse(Tactic("split-clause"), Tactic("skip")))

split_at_most(n) == RepeatN(OrElse(Tactic("split-clause"), Tactic("skip")), n)

split_solve == Then(split_all, Tactic("solve-eqs"))

\* the goal of the Tactics cell: a clause for each variable of S, in order,
\* then the sum constraint over V
ClauseGoal(S, V, c) ==
    [i \in 1..Cardinality(S) |->
        Clause(VarOrder[Min({j \in 1..3 :
            Cardinality({l \in 1..j : VarOrder[l] \in S}) = i})])]
    \o <<SumGt(V, c)>>

(* ------------------------------ cell output ---------------------------- *)

NoModel == [v \in {} |-> 0]

\* a printed line: a text, a text with a number, a tactic's result, a model
Text(txt) == [txt |-> txt, n |-> 0, res |-> Fail, m |-> NoModel]

PrintNum(txt, n) == [txt |-> txt, n |-> n, res |-> Fail, m |-> NoModel]

PrintResult(res) == [txt |-> "", n |-> 0, res |-> res, m |-> NoModel]

PrintModel(m) == [txt |-> "", n |-> 0, res |-> Fail, m |-> m]

(* ---------------------------- inputs of the cells ---------------------- *)

\* goals of the Tactics cell's shape: clauses for some variables and a sum
ClauseGoals ==
    {ClauseGoal(S, V, c) :
        <<S, V>> \in {sv \in (SUBSET Vars) \X (SUBSET Vars) :
                         sv[1] \subseteq sv[2] /\ sv[2] # {}},
        c \in 0..MaxThreshold}

\* goals of the FailIf cell's shape: one sum constraint  ... > 0
SumGoals == {<<SumGt(V, 0)>> : V \in (SUBSET Vars) \ {{}}}

\* goals of the If cell's shape: x**2 - y**2 >= 0, alone or after a linear
\* inequality over more variables
PolyGoals ==
    {<<Poly({"x", "y"}, 0)>>}
    \cup {<<Poly(V, 0), Poly({"x", "y"}, 0)>> : V \in {{"x"}, Vars}}

\* the goals tactics are tried on: the above, and the two decided goals
GoalsUnderTest == ClauseGoals \cup {Goal, <<FalseF>>}

\* the constraints solve_using is given in the solver cell: the equation,
\* alone or with every variable between 0 and u
BoundedArgs(u) ==
    <<Lb("x", 0), Ub("x", u), Lb("y", 0), Ub("y", u), Lb("z", 0), Ub("z", u), Lin>>

SolverArgs == {BoundedArgs(u) : u \in 1..MaxUpper} \cup {<<Lin>>}

\* goals of the conversion cell's shape: x > a, y == x + b, z > y
OffsetGoals == {<<Lb("x", a), Off(b), Zy>> : a \in 0..MaxA, b \in 0..MaxB}

\* the models the general Solver() may return for a (satisfiable) goal:
\* any assignment satisfying it, taken near the least values
SolverModels(gl) ==
    LET los == {gl[i].c : i \in {j \in DOMAIN gl : gl[j].k = "lb"}}
        box == IF los = {} THEN 0..MaxSlack
               ELSE (Min(los) + 1)..(Min(los) + 1 + MaxSlack)
    IN {m \in [GoalVars(gl) -> box] : \A i \in DOMAIN gl : Holds(gl[i], m)}

BaseTactics ==
    {Tactic("skip"), Tactic("fail"), Tactic("split-clause"), Tactic("solve-eqs")}

Conds == {ProbeGt(k) : k \in 1..MaxProbe}

\* the tactics tried on the goals: the built-in ones, every tactical over
\* them, and the Tactics cell's own
TacticsUnderTest ==
    BaseTactics
    \cup {OrElse(a, b) : a \in BaseTactics, b \in BaseTactics}
    \cup {Then(a, b) : a \in BaseTactics, b \in BaseTactics}
    \cup {RepeatN(a, n) : a \in BaseTactics, n \in 0..MaxRepeat}
    \cup {Repeat(a) : a \in BaseTactics}
    \cup {split_at_most(n) : n \in 0..MaxRepeat}
    \cup {Then(split_at_most(n), Tactic("solve-eqs")) : n \in 0..MaxRepeat}
    \cup {split_all, split_solve}
    \cup {FailIf(p) : p \in Conds} \cup {FailIf(Not(p)) : p \in Conds}
    \cup {If(p, a, b) : p \in Conds, a \in BaseTactics, b \in BaseTactics}
    \cup {When(p, a) : p \in Conds, a \in BaseTactics}

(* ------------------------------ the notebook --------------------------- *)

\* a cell has run to its end, or was aborted by an uncaught exception
Ended == cell # "none" /\ pc \in {"done", "error"}

\* no cell has run since the kernel started: no name is bound yet
Fresh == cell = "none"

Init ==
    /\ cell = "none"
    /\ pc = "done"
    /\ g = Goal
    /\ t = Tactic("skip")
    /\ r = Fail
    /\ out = <<>>
    /\ asserts = <<>>
    /\ mdl = NoModel

\* print(t(g)): a tactic is applied to a goal and the result printed; an
\* exception ends the cell
ApplyTactic ==
    /\ Fresh
    /\ \E tac \in TacticsUnderTest, gl \in GoalsUnderTest :
         LET res == Apply(tac, gl) IN
         /\ cell' = "apply"
         /\ t' = tac
         /\ g' = gl
         /\ r' = res
         /\ out' = IF res.ok THEN <<PrintResult(res)>> ELSE <<>>
         /\ pc' = IF res.ok THEN "done" ELSE "error"
    /\ UNCHANGED <<asserts, mdl>>

\* the Tactics cell: the goal is built, then split_all, split_at_most_2 and
\* split_solve are applied to it in turn, each result printed
TacticsStart ==
    /\ Fresh
    /\ \E gl \in ClauseGoals :
         /\ cell' = "tactics"
         /\ g' = gl
         /\ t' = split_all
         /\ pc' = "split_all"
         /\ r' = Fail
         /\ out' = <<>>
    /\ UNCHANGED <<asserts, mdl>>

\* print(t(g)) inside a cell: on an exception the cell is aborted
PrintApply(next_pc) ==
    LET res == Apply(t, g) IN
    /\ r' = res
    /\ out' = IF res.ok THEN Append(out, PrintResult(res)) ELSE out
    /\ pc' = IF res.ok THEN next_pc ELSE "error"

TacticsSplitAll ==
    /\ cell = "tactics" /\ pc = "split_all"
    /\ PrintApply("split_at_most")
    /\ UNCHANGED <<cell, g, t, asserts, mdl>>

TacticsBound ==
    /\ cell = "tactics" /\ pc = "split_at_most"
    /\ \E n \in 0..MaxRepeat : t' = split_at_most(n)
    /\ pc' = "print_at_most"
    /\ UNCHANGED <<cell, g, r, out, asserts, mdl>>

TacticsSplitAtMost ==
    /\ cell = "tactics" /\ pc = "print_at_most"
    /\ PrintApply("split_solve")
    /\ UNCHANGED <<cell, g, t, asserts, mdl>>

TacticsSolve ==
    /\ cell = "tactics" /\ pc = "split_solve"
    /\ t' = split_solve
    /\ pc' = "print_solve"
    /\ UNCHANGED <<cell, g, r, out, asserts, mdl>>

TacticsSplitSolve ==
    /\ cell = "tactics" /\ pc = "print_solve"
    /\ PrintApply("done")
    /\ UNCHANGED <<cell, g, t, asserts, mdl>>

\* the FailIf cell
\* the exception a failed tactic application raises, and the cell's handler
Raised == "Z3Exception"

\* (mutant) a handler for another exception class
CaughtOther(exc) == exc = "ValueError"

Caught(exc) == exc = "Z3Exception"

FailIfStart ==
    /\ Fresh
    /\ \E gl \in SumGoals :
         /\ cell' = "failif"
         /\ g' = gl
         /\ pc' = "probe"
         /\ out' = <<>>
         /\ r' = Fail
         /\ t' = Tactic("skip")
    /\ UNCHANGED <<asserts, mdl>>

\* p = Probe('num-consts'); print("num-consts:", p(g)); t = FailIf(p > 2)
FailIfProbe ==
    /\ cell = "failif" /\ pc = "probe"
    /\ out' = Append(out, PrintNum("num-consts:", NumConsts(g)))
    /\ \E k \in 1..MaxProbe : t' = FailIf(ProbeGt(k))
    /\ pc' = "try"
    /\ UNCHANGED <<cell, g, r, asserts, mdl>>

\* try: t(g)
FailIfTry ==
    /\ cell = "failif" /\ pc = "try"
    /\ r' = Apply(t, g)
    /\ pc' = IF r'.ok THEN "again" ELSE "except"
    /\ UNCHANGED <<cell, g, t, out, asserts, mdl>>

\* except Z3Exception: print("tactic failed")
FailIfExcept ==
    /\ cell = "failif" /\ pc = "except"
    /\ IF Caught(Raised)
       THEN out' = Append(out, Text("tactic failed")) /\ pc' = "again"
       ELSE out' = out /\ pc' = "error"
    /\ UNCHANGED <<cell, g, t, r, asserts, mdl>>

\* print("trying again..."); g = Goal(); g.add(x + y > 0)
FailIfAgain ==
    /\ cell = "failif" /\ pc = "again"
    /\ out' = Append(out, Text("trying again..."))
    /\ \E gl \in SumGoals : g' = gl
    /\ pc' = "second"
    /\ UNCHANGED <<cell, t, r, asserts, mdl>>

\* print(t(g))
FailIfSecond ==
    /\ cell = "failif" /\ pc = "second"
    /\ PrintApply("done")
    /\ UNCHANGED <<cell, g, t, asserts, mdl>>

\* the If cell: t = If(p > 2, 'simplify', 'factor') on two goals
IfStart ==
    /\ Fresh
    /\ \E gl \in PolyGoals, k \in 1..MaxProbe :
         /\ cell' = "if"
         /\ g' = gl
         /\ t' = If(ProbeGt(k), Tactic("simplify"), Tactic("factor"))
         /\ pc' = "first"
         /\ out' = <<>>
         /\ r' = Fail
    /\ UNCHANGED <<asserts, mdl>>

IfFirst ==
    /\ cell = "if" /\ pc = "first"
    /\ PrintApply("rebind")
    /\ UNCHANGED <<cell, g, t, asserts, mdl>>

IfRebind ==
    /\ cell = "if" /\ pc = "rebind"
    /\ \E gl \in PolyGoals : g' = gl
    /\ pc' = "second"
    /\ UNCHANGED <<cell, t, r, out, asserts, mdl>>

IfSecond ==
    /\ cell = "if" /\ pc = "second"
    /\ PrintApply("done")
    /\ UNCHANGED <<cell, g, t, asserts, mdl>>

\* s = t.solver(); s.add(...); print(s.check())
SolverCheck ==
    /\ Fresh
    /\ \E tac \in TacticsUnderTest, gl \in GoalsUnderTest :
         /\ cell' = "check"
         /\ t' = tac
         /\ asserts' = gl
         /\ out' = <<Text(Check(tac, gl))>>
    /\ pc' = "done"
    /\ UNCHANGED <<g, r, mdl>>

\* solve_using(s, *args): the constraints are added to the solver's
\* assertions, the solver is checked, and the answer printed: "no
\* solution", "failed to solve" (then the model, if the solver has one:
\* after a failed tactic it has none), or the model
SolveUsing(args) ==
    /\ asserts' = asserts \o args
    /\ LET ans == Check(t, asserts') IN
       IF ans = "unsat" THEN out' = Append(out, Text("no solution")) /\ mdl' = NoModel
       ELSE IF ans = "unknown"
            THEN out' = Append(out, Text("failed to solve")) /\ mdl' = NoModel
       ELSE \E m \in Solutions(asserts') :
              mdl' = m /\ out' = Append(out, PrintModel(m))

\* the solver cell
SolverStart ==
    /\ Fresh
    /\ cell' = "solver"
    /\ t' = IntBySat
    /\ asserts' = <<>>
    /\ pc' = "solve1"
    /\ UNCHANGED <<g, r, out, mdl>>

SolverSolve1 ==
    /\ cell = "solver" /\ pc = "solve1"
    /\ \E args \in SolverArgs : SolveUsing(args)
    /\ pc' = "reset"
    /\ UNCHANGED <<cell, g, t, r>>

\* (mutant) a reset that keeps the assertions
ResetKeeps(as) == as

\* s.reset(): the solver's assertions are removed
Reset(as) == <<>>

SolverReset ==
    /\ cell = "solver" /\ pc = "reset"
    /\ asserts' = Reset(asserts)
    /\ pc' = "solve2"
    /\ UNCHANGED <<cell, g, t, r, out, mdl>>

SolverSolve2 ==
    /\ cell = "solver" /\ pc = "solve2"
    /\ \E args \in SolverArgs : SolveUsing(args)
    /\ pc' = "done"
    /\ UNCHANGED <<cell, g, t, r>>

\* the model-conversion cell
ConvertStart ==
    /\ Fresh
    /\ \E gl \in OffsetGoals : g' = gl
    /\ cell' = "convert"
    /\ t' = SimplifySolveEqs
    /\ pc' = "apply"
    /\ UNCHANGED <<r, out, asserts, mdl>>

\* r = t(g); print(r)
ConvertApply ==
    /\ cell = "convert" /\ pc = "apply"
    /\ PrintApply("check")
    /\ UNCHANGED <<cell, g, t, asserts, mdl>>

\* s = Solver(); s.add(r[0]); print(s.check())
ConvertCheck ==
    /\ cell = "convert" /\ pc = "check"
    /\ asserts' = r.goals[1]
    /\ IF SolverModels(asserts') = {}
       THEN \* s.model() then raises
            out' = Append(out, Text("unsat")) /\ mdl' = NoModel /\ pc' = "error"
       ELSE /\ out' = Append(out, Text("sat"))
            /\ mdl' \in SolverModels(asserts')
            /\ pc' = "model"
    /\ UNCHANGED <<cell, g, t, r>>

\* print(s.model())
ConvertModelPrint ==
    /\ cell = "convert" /\ pc = "model"
    /\ out' = Append(out, PrintModel(mdl))
    /\ pc' = "convert"
    /\ UNCHANGED <<cell, g, t, r, asserts, mdl>>

\* print(r[0].convert_model(s.model()))
ConvertConvert ==
    /\ cell = "convert" /\ pc = "convert"
    /\ out' = Append(out, PrintModel(ConvertModel(Converter(t, g), mdl)))
    /\ pc' = "done"
    /\ UNCHANGED <<cell, g, t, r, asserts, mdl>>

\* the kernel is restarted before the next cell is run: every name the cell
\* bound is gone. (Each cell binds every name it reads before reading it,
\* so what an earlier cell left behind is never seen by a later one.)
Restart ==
    /\ Ended
    /\ cell' = "none"
    /\ pc' = "done"
    /\ g' = Goal
    /\ t' = Tactic("skip")
    /\ r' = Fail
    /\ out' = <<>>
    /\ asserts' = <<>>
    /\ mdl' = NoModel

Next ==
    \/ Restart
    \/ ApplyTactic
    \/ TacticsStart \/ TacticsSplitAll \/ TacticsBound \/ TacticsSplitAtMost
    \/ TacticsSolve \/ TacticsSplitSolve
    \/ FailIfStart \/ FailIfProbe \/ FailIfTry \/ FailIfExcept \/ FailIfAgain
    \/ FailIfSecond
    \/ IfStart \/ IfFirst \/ IfRebind \/ IfSecond
    \/ SolverCheck
    \/ SolverStart \/ SolverSolve1 \/ SolverReset \/ SolverSolve2
    \/ ConvertStart \/ ConvertApply \/ ConvertCheck \/ ConvertModelPrint
    \/ ConvertConvert

Spec == Init /\ [][Next]_vars

(* ------------------------- recorded cell outputs ----------------------- *)

\* the FailIf cell's recorded output
RecordedFailIf ==
    <<PrintNum("num-consts:", 3),
      Text("tactic failed"),
      Text("trying again..."),
      PrintResult(Subgoals(<<<<SumGt({"x", "y"}, 0)>>>>))>>

\* the If cell's recorded output: the first goal factored, the second
\* simplified
RecordedIf ==
    <<PrintResult(Subgoals(<<<<Poly({"x", "y"}, 2)>>>>)),
      PrintResult(Subgoals(<<<<Poly(Vars, 1), Poly({"x", "y"}, 1)>>>>))>>

\* the Tactics cell's recorded output: split_all's 8 subgoals in order,
\* split_at_most_2's 4 subgoals, split_solve's single empty goal
RecordedTactics ==
    LET sum == SumGt(Vars, 2) IN
    <<PrintResult(Subgoals(
        [i \in 1..8 |-> <<Eq("x", ((i - 1) \div 4) % 2),
                          Eq("y", ((i - 1) \div 2) % 2),
                          Eq("z", (i - 1) % 2), sum>>])),
      PrintResult(Subgoals(
        [i \in 1..4 |-> <<Eq("x", ((i - 1) \div 2) % 2),
                          Eq("y", (i - 1) % 2),
                          Clause("z"), sum>>])),
      PrintResult(Subgoals(<<Goal>>))>>

\* the solver cell's recorded output
RecordedSolver ==
    <<PrintModel([x |-> 3, y |-> 1, z |-> 9]), Text("failed to solve")>>

\* the model-conversion cell's recorded output
RecordedConvert ==
    <<PrintResult(Subgoals(<<<<Lb("y", 13), Zy>>>>)),
      Text("sat"),
      PrintModel([y |-> 14, z |-> 15]),
      PrintModel([x |-> 11, y |-> 14, z |-> 15])>>

(* -------------------------------- claims ------------------------------- *)

\* the FailIf cell with the notebook's own inputs, run to its end
FailIfCellAsWritten ==
    /\ cell = "failif" /\ pc = "done"
    /\ out[1].n = 3
    /\ t = FailIf(ProbeGt(2))
    /\ g = <<SumGt({"x", "y"}, 0)>>

\* C1: in the FailIf cell a failing first application is caught: exactly
\* "tactic failed" is printed for it and no result; the cell goes on,
\* prints "trying again..." and the second application's result, which is
\* the second goal as single subgoal whatever the first application did.
\* The cell is aborted only by a failure of the second application.
C1_FailureCaughtCellContinues ==
    cell = "failif" =>
      /\ pc = "error" =>
           /\ Len(out) >= 2
           /\ out[Len(out)] = Text("trying again...")
           /\ ProbeHolds(t.p, g)
      /\ pc = "done" =>
           out = <<out[1]>>
                 \o (IF out[1].n > t.p.gt THEN <<Text("tactic failed")>> ELSE <<>>)
                 \o <<Text("trying again..."), PrintResult(Subgoals(<<g>>))>>
      /\ FailIfCellAsWritten => out = RecordedFailIf

C1_Witness ==
    FailIfCellAsWritten /\ out[2] = Text("tactic failed") /\ Len(out) = 4

\* states in which r is the outcome of the tactic FailIf(cond) t on the goal g
FailIfApplied ==
    \/ cell = "apply" /\ t.op = "FailIf"
    \/ cell = "failif" /\ pc \in {"except", "again", "done"}
    \/ cell = "failif" /\ pc = "error" /\ ~r.ok

Applied ==
    \/ cell = "apply"
    \/ cell = "if" /\ pc \in {"rebind", "done"}
    \/ cell = "tactics" /\ pc \in {"split_at_most", "split_solve", "done"}

Count(gl, kind) == Cardinality({i \in DOMAIN gl : gl[i].k = kind})

\* C5: OrElse(t, s) gives t's result when t does not fail, and otherwise the
\* result of s on the same input goal; OrElse(t, 'skip') never fails, and
\* OrElse('split-clause', 'skip') returns a goal without a clause as its
\* single subgoal.
C5_OrElseFallsBack ==
    Applied /\ t.op = "OrElse" =>
      LET r1 == Apply(t.a, g) IN
      /\ r1.ok => r = r1
      /\ ~r1.ok => r = Apply(t.b, g)
      /\ t.b = Tactic("skip") => r.ok
      /\ t = OrElse(Tactic("split-clause"), Tactic("skip")) /\ Count(g, "or") = 0
           => r = Subgoals(<<g>>)

\* split-clause fails on a goal without a clause and skip returns the goal
C5_Witness ==
    /\ cell = "apply"
    /\ t = OrElse(Tactic("split-clause"), Tactic("skip"))
    /\ Count(g, "or") = 0 /\ g # Goal
    /\ ~Apply(Tactic("split-clause"), g).ok
    /\ r = Subgoals(<<g>>)

\* the outcome of Then(a, b) on the goal gl, said without recursion:
\* s is applied to the subgoals of t in order up to the first one on which it
\* fails or which it decides satisfiable
ThenOutcome(a, b, gl) ==
    LET r1 == Apply(a, gl)
        rs == [i \in DOMAIN r1.goals |-> Apply(b, r1.goals[i])]
        stops == {i \in DOMAIN rs :
                     \/ ~rs[i].ok
                     \/ Len(rs[i].goals) = 1 /\ IsDecidedSat(rs[i].goals[1])}
        kept == Flatten([i \in DOMAIN rs |->
                    IF Len(rs[i].goals) = 1 /\ IsDecidedUnsat(rs[i].goals[1])
                    THEN <<>> ELSE rs[i].goals])
    IN IF ~r1.ok THEN Fail
       ELSE IF Len(r1.goals) = 1
            THEN IF IsDecided(r1.goals[1]) THEN r1 ELSE rs[1]
       ELSE IF stops # {} THEN rs[Min(stops)]
       ELSE IF kept = <<>> THEN Subgoals(<<<<FalseF>>>>)
       ELSE Subgoals(kept)

RECURSIVE Pow2(_)
Pow2(n) == IF n = 0 THEN 1 ELSE 2 * Pow2(n - 1)

\* C7: Repeat(t, n) applies t at most n + 1 times along a path. With
\* t = OrElse('split-clause', 'skip') on a goal with k two-literal clauses,
\* min(n + 1, k) clauses are split on every path: the result has
\* 2^min(n + 1, k) subgoals, each with the other clauses unsplit; for n = 1
\* and three clauses, 4 subgoals that still contain Or(z == 0, z == 1).
\* Repeat(t) without a bound splits every clause.
C7_RepeatAtMostNPlusOne ==
    /\ Applied /\ t.op = "Repeat" /\ t.a = OrElse(Tactic("split-clause"), Tactic("skip"))
         /\ Count(g, "false") = 0 =>
         LET k == Count(g, "or")
             splits == IF t.n < k THEN t.n + 1 ELSE k
         IN /\ r.ok
            /\ Len(r.goals) = Pow2(splits)
            /\ \A i \in DOMAIN r.goals :
                 /\ Count(r.goals[i], "eq") = splits
                 /\ Count(r.goals[i], "eq") - 1 <= t.n
                 /\ Count(r.goals[i], "or") = k - splits
    /\ cell = "tactics" /\ pc = "split_solve" /\ t = split_at_most(1)
         /\ g = ClauseGoal(Vars, Vars, 2) =>
         /\ Len(r.goals) = 4
         /\ \A i \in 1..4 : r.goals[i][3] = Clause("z")
         /\ out[2] = RecordedTactics[2]

\* the notebook's split_at_most_2 on its three-clause goal
C7_Witness ==
    /\ cell = "tactics" /\ pc = "split_solve" /\ t = split_at_most(1)
    /\ g = ClauseGoal(Vars, Vars, 2)
    /\ Len(r.goals) = 4
    /\ out = <<RecordedTactics[1], RecordedTactics[2]>>

\* C4: the solver of a tactic answers sat when the tactic produces the
\* empty goal, unsat when it produces a single goal containing False, and
\* unknown in every other case (several subgoals, a non-empty goal without
\* False, a failure of the tactic). The bounded-integer solver holds the
\* constraints of the current call only; it prints a model satisfying them
\* when every variable is bounded and they have a solution, "no solution"
\* when bounded without one, and "failed to solve" for the unbounded
\* 3*y + 2*x == z.
C4_SolverAnswers ==
    /\ cell = "check" =>
         LET res == Apply(t, asserts)
             ans == out[1].txt
         IN /\ ans \in {"sat", "unsat", "unknown"}
            /\ ans = "sat" <=> res = Subgoals(<<Goal>>)
            /\ ans = "unsat" <=>
                 res.ok /\ Len(res.goals) = 1 /\ FalseF \in Range(res.goals[1])
            /\ (~res.ok \/ Len(res.goals) > 1) => ans = "unknown"
            /\ (res.ok /\ Len(res.goals) = 1 /\ res.goals[1] # Goal
                  /\ FalseF \notin Range(res.goals[1])) => ans = "unknown"
    /\ cell = "solver" /\ pc \in {"reset", "done"} =>
         LET last == out[Len(out)] IN
         /\ asserts \in SolverArgs
         /\ asserts = <<Lin>> => last = Text("failed to solve")
         /\ asserts # <<Lin>> =>
              LET u == asserts[2].c IN
              IF \E x \in 1..(u - 1), y \in 1..(u - 1), z \in 1..(u - 1) :
                    3 * y + 2 * x = z
              THEN /\ last = PrintModel(mdl)
                   /\ DOMAIN mdl = Vars
                   /\ \A i \in DOMAIN asserts : Holds(asserts[i], mdl)
              ELSE last = Text("no solution")
         /\ asserts = BoundedArgs(10) =>
              \A i \in DOMAIN asserts : Holds(asserts[i], RecordedSolver[1].m)

\* the solver cell as recorded: a model of the bounded problem, then
\* "failed to solve" for the equation alone
C4_Witness ==
    /\ cell = "solver" /\ pc = "done"
    /\ asserts = <<Lin>>
    /\ out = RecordedSolver

\* C8: the model of the subgoal r[0], converted, is a model of the original
\* goal: it assigns every variable of the goal, the eliminated x included,
\* satisfies every formula of the goal, and agrees with the subgoal's model
\* on the variables that one assigns.
C8_ConvertedModelSatisfiesGoal ==
    cell = "convert" /\ pc = "done" =>
      LET cm == out[4].m IN
      /\ r.goals = <<asserts>>
      /\ \A i \in DOMAIN asserts : Holds(asserts[i], mdl)
      /\ "x" \notin GoalVars(asserts) /\ "x" \notin DOMAIN mdl
      /\ DOMAIN cm = GoalVars(g)
      /\ \A i \in DOMAIN g : Holds(g[i], cm)
      /\ \A v \in DOMAIN mdl : cm[v] = mdl[v]
      /\ (g = <<Lb("x", 10), Off(3), Zy>> /\ mdl = RecordedConvert[3].m)
           => out = RecordedConvert

\* the conversion cell as recorded: y = 14, z = 15 becomes x = 11, y = 14, z = 15
C8_Witness ==
    /\ cell = "convert" /\ pc = "done"
    /\ g = <<Lb("x", 10), Off(3), Zy>>
    /\ out = RecordedConvert

====
